---- MODULE Spec2Model ----
(***************************************************************************)
(* Model of useTimeSlice (time-sliced chunk processing): the closure state *)
(* of one scheduler instance, the host's timer queue, and the four control *)
(* operations start / pause / resume / stop plus the timer callback.       *)
(* Every handler runs to completion in one step (single-threaded host).    *)
(* The timestamp-based useDebounce and useThrottle wrappers are modelled    *)
(* next to it, with the host clock Date.now() and the queue of polling     *)
(* callbacks, and so are the resettable state containers (over a heap of   *)
(* objects with identity), the useScroll hook and the integerOnly /        *)
(* decimalOnly input directives; each component has its own specification. *)
(***************************************************************************)
EXTENDS Integers, Sequences, FiniteSets, TLC

\* ---------------------------------------------------------------- bounds
MaxLen == 4
MaxCount == 3
MaxInterval == 2
MaxDelay == 2
MaxTime == 4
MaxCalls == 3
MaxTimers == 3
MaxArr == 2
MaxScroll == 3
MaxLimit == 2
MaxText == 3
\* the longest log the observers keep: a complete run and one more entry
MaxLog == 2 * MaxLen + 2

\* ------------------------------------------------------------- constants
\* timeoutId = null
NoTimer == 0
\* an array slot that was never written (a hole of a JS array)
Hole == -1
\* let lastArgs, not yet assigned
NoArgs == 0
\* a transform that throws for no index
NoThrow == -1
\* no object: a reference that is not set
NoAddr == 0
\* a key the object does not have
Absent == -1
\* a container that was not created has produced no value
NoValue == <<>>
\* binding.value of a directive used without a value
Undefined == -1
\* scrollHeight / clientHeight of an event target that has none
NoHeight == -1
\* the resettable containers a component creates
Containers == {1, 2}

VARIABLES
    data,           \* options.data
    count,          \* options.count
    interval,       \* options.interval
    handlerKind,    \* options.handler: which transform was supplied
    isRunning,      \* ref(false)
    isPaused,       \* ref(false)
    timeoutId,      \* let timeoutId: number | null
    currentIndex,   \* let currentIndex
    result,         \* const result: R[]
    timers,         \* the host's pending setTimeout entries
    log,            \* what handler / onProgress / onComplete observed in the current run
    elapsed,        \* time since the last chunk step ended (saturating)
    lastOp,         \* the operation the host invoked last
    acted,          \* whether that operation passed its guard
    phase,          \* the state of the documented state machine
    runKind,        \* how the current run was begun
    wasPaused,      \* whether pause() took effect during the current run
    delay,          \* the delay given to useDebounce / useThrottle
    now,            \* Date.now()
    lastCallTime,   \* useDebounce: let lastCallTime
    lastArgs,       \* useDebounce: let lastArgs
    executeId,      \* useDebounce: let executeId
    pollers,        \* useDebounce: the queued checkTime callbacks, by their currentId
    lastExecuteTime,\* useThrottle: let lastExecuteTime
    called,         \* the calls of the wrapper function so far
    execs,          \* the executions of the wrapped fn so far
    throwAt,        \* options.handler: the index at which the transform throws
    onProgressOp,   \* options.onProgress: the operation the callback invokes
    onProgressAt,   \* options.onProgress: the report at which it invokes it
    factoryKind,    \* resettable: what kind of factory val is
    kinds,          \* resettable: which hook created each container
    objs,           \* resettable: the heap of plain objects, by identity
    arrs,           \* resettable: the heap of arrays, by identity
    initialValue,   \* useResettableRef: const initialValue
    state,          \* resettable: const state (the object behind the ref / proxy)
    produced,       \* resettable: the value val() returned when the container was created
    kept,           \* resettable: whether the last operation kept the state object
    who,            \* resettable: the container the last operation was applied to
    pageYOffset,    \* window.pageYOffset
    docScrollTop,   \* document.documentElement.scrollTop
    scrollTop,      \* useScroll: ref(0)
    isBottom,       \* useScroll: ref(false)
    scrollDirection,\* useScroll: ref("none")
    prevScrollTop,  \* useScroll: ref(0)
    mounted,        \* useScroll: the lifecycle stage of the component
    directive,      \* which directive is bound to the input element
    bindingValue,   \* binding.value
    limit,          \* mounted(): const limit
    value,          \* el.value
    selectionStart, \* el.selectionStart
    isComposing,    \* mounted(): let isComposing
    entered,        \* the text the user puts into the element
    dispatched      \* the input events handleInput dispatched during the last event

vars == <<data, count, interval, handlerKind, isRunning, isPaused, timeoutId,
          currentIndex, result, timers, log, elapsed, lastOp, acted, phase,
          runKind, wasPaused, delay, now, lastCallTime, lastArgs, executeId,
          pollers, lastExecuteTime, called, execs, throwAt, onProgressOp,
          onProgressAt, factoryKind, kinds, objs, arrs, initialValue, state,
          produced, kept, who, pageYOffset, docScrollTop, scrollTop, isBottom,
          scrollDirection, prevScrollTop, mounted, directive, bindingValue, limit,
          value, selectionStart, isComposing, entered, dispatched>>

\* the options a scheduler is created with
optVars == <<data, count, interval, handlerKind, throwAt, onProgressOp, onProgressAt>>

\* the variables of useTimeSlice and its observers
sliceVars == <<optVars, isRunning, isPaused, timeoutId,
               currentIndex, result, timers, log, elapsed, phase, runKind, wasPaused>>

\* the variables of useDebounce / useThrottle and their observers
fnVars == <<delay, now, lastCallTime, lastArgs, executeId, pollers,
            lastExecuteTime, called, execs>>

\* the variables of the resettable containers and their observers
resetVars == <<factoryKind, kinds, objs, arrs, initialValue, state, produced,
               kept, who>>

\* the variables of useScroll and of the window it listens to
scrollVars == <<pageYOffset, docScrollTop, scrollTop, isBottom, scrollDirection,
                prevScrollTop, mounted>>

\* the variables of the input directives and of the element they are bound to
inputVars == <<directive, bindingValue, limit, value, selectionStart, isComposing,
               entered, dispatched>>

\* the state the code itself holds or can observe
progVars == <<isRunning, isPaused, timeoutId, currentIndex, result, timers, log>>

Min(a, b) == IF a < b THEN a ELSE b

\* the element values: two distinct ones tell the elements of data apart
Items == {1, 2}

RECURSIVE SeqsUpTo(_)
SeqsUpTo(n) ==
    IF n = 0 THEN {<<>>}
    ELSE LET shorter == SeqsUpTo(n - 1)
         IN shorter \cup {Append(q, x) : q \in {r \in shorter : Len(r) = n - 1}, x \in Items}

\* the transforms the tests supply: item * 2 and `${index}-${item}`
\* (the string is encoded as 10 * index + item, injective for item < 10)
handler(item, index) ==
    IF handlerKind = "double" THEN item * 2 ELSE 10 * index + item

\* result[i] = v on a JS array: extends the array, leaving holes, when i >= length
ArraySet(arr, i, v) ==
    IF i < Len(arr) THEN [arr EXCEPT ![i + 1] = v]
    ELSE arr \o [k \in 1..(i - Len(arr)) |-> Hole] \o <<v>>

\* the closure state as one value
St == [isRunning |-> isRunning, isPaused |-> isPaused, timeoutId |-> timeoutId,
       currentIndex |-> currentIndex, result |-> result, timers |-> timers,
       log |-> log]

\* the handle window.setTimeout returns: an id no pending timer has; ids are only
\* compared for equality, so the smallest id stored nowhere stands for a new one
FreshId(s) ==
    CHOOSE n \in 1..(Cardinality(s.timers) + 2) :
        n # s.timeoutId /\ \A t \in s.timers : t.id # n

\* setTimeout that ignores the requested delay
setTimeout_noDelay(s, ms) ==
    [s EXCEPT !.timeoutId = FreshId(s),
              !.timers = @ \cup {[id |-> FreshId(s), left |-> 0]}]

\* timeoutId = window.setTimeout(processChunk, interval)
setTimeout(s, ms) ==
    [s EXCEPT !.timeoutId = FreshId(s),
              !.timers = @ \cup {[id |-> FreshId(s), left |-> ms]}]

\* if (timeoutId !== null) { clearTimeout(timeoutId); timeoutId = null }
clearTimeout(s) ==
    IF s.timeoutId # NoTimer
    THEN [s EXCEPT !.timers = {t \in @ : t.id # s.timeoutId}, !.timeoutId = NoTimer]
    ELSE s

\* handleRange with the index taken relative to the chunk instead of the array
RECURSIVE handleRange_chunkRelative(_, _, _)
handleRange_chunkRelative(s, i, end) ==
    IF i >= end THEN s
    ELSE handleRange_chunkRelative(
             [s EXCEPT !.result = ArraySet(@, i - s.currentIndex,
                                           handler(data[i + 1], i - s.currentIndex)),
                       !.log = Append(@, <<"handler", data[i + 1], i>>)],
             i + 1, end)

\* for (let i = currentIndex; i < end; i++) result[i] = handler(data[i], i)
RECURSIVE handleRange(_, _, _)
handleRange(s, i, end) ==
    IF i >= end THEN s
    ELSE handleRange([s EXCEPT !.result = ArraySet(@, i, handler(data[i + 1], i)),
                               !.log = Append(@, <<"handler", data[i + 1], i>>)],
                     i + 1, end)

\* pause that leaves the scheduled continuation in the timer queue
pause_noClear(s) ==
    IF ~s.isRunning \/ s.isPaused THEN s
    ELSE [s EXCEPT !.isPaused = TRUE]

\* pause that also drops the running flag
pause_clearsRunning(s) ==
    IF ~s.isRunning \/ s.isPaused THEN s
    ELSE clearTimeout([s EXCEPT !.isPaused = TRUE, !.isRunning = FALSE])

pause(s) ==
    IF ~s.isRunning \/ s.isPaused THEN s
    ELSE clearTimeout([s EXCEPT !.isPaused = TRUE])

\* stop that keeps the processing position
stop_keepIndex(s) ==
    IF ~s.isRunning THEN s
    ELSE [clearTimeout([s EXCEPT !.isRunning = FALSE, !.isPaused = FALSE])
            EXCEPT !.result = <<>>]

\* stop without its guard
stop_noGuard(s) ==
    [clearTimeout([s EXCEPT !.isRunning = FALSE, !.isPaused = FALSE])
       EXCEPT !.currentIndex = 0, !.result = <<>>]

\* stop that leaves the scheduled continuation in the timer queue
stop_noClear(s) ==
    IF ~s.isRunning THEN s
    ELSE [s EXCEPT !.isRunning = FALSE, !.isPaused = FALSE,
                   !.currentIndex = 0, !.result = <<>>]

stop(s) ==
    IF ~s.isRunning THEN s
    ELSE [clearTimeout([s EXCEPT !.isRunning = FALSE, !.isPaused = FALSE])
            EXCEPT !.currentIndex = 0, !.result = <<>>]

\* whether the transform throws for an index of the range [from, end)
throwsIn(from, end) == throwAt # NoThrow /\ throwAt >= from /\ throwAt < end

\* onProgress?.(currentIndex, totalLength): the observer notes the report; the
\* callback the host supplied may call pause() or stop() of the same scheduler
onProgress(s, done, total) ==
    LET s1 == [s EXCEPT !.log = Append(@, <<"progress", done, total>>)]
    IN  IF done # onProgressAt THEN s1
        ELSE IF onProgressOp = "pause" THEN pause(s1)
        ELSE IF onProgressOp = "stop" THEN stop(s1)
        ELSE s1

\* whether a call of processChunk passes its guard and runs a chunk step
stepRuns(s) == s.isRunning /\ ~s.isPaused

\* processChunk announcing completion before the last progress report
processChunk_completeFirst(s) ==
    IF ~s.isRunning \/ s.isPaused THEN s
    ELSE LET totalLength == Len(data)
             end == Min(s.currentIndex + count, totalLength)
             s1 == handleRange(s, s.currentIndex, end)
             s2 == [s1 EXCEPT !.currentIndex = end]
         IN  IF s2.currentIndex < totalLength
             THEN setTimeout([s2 EXCEPT !.log = Append(@, <<"progress", end, totalLength>>)],
                             interval)
             ELSE [s2 EXCEPT !.isRunning = FALSE,
                             !.log = @ \o << <<"complete", s2.result>>,
                                             <<"progress", end, totalLength>> >>]

\* processChunk that schedules another step whenever the chunk was a full one
processChunk_fullChunkContinues(s) ==
    IF ~s.isRunning \/ s.isPaused THEN s
    ELSE LET totalLength == Len(data)
             end == Min(s.currentIndex + count, totalLength)
             s1 == handleRange(s, s.currentIndex, end)
             s2 == [s1 EXCEPT !.currentIndex = end,
                              !.log = Append(@, <<"progress", end, totalLength>>)]
         IN  IF end - s.currentIndex = count
             THEN setTimeout(s2, interval)
             ELSE [s2 EXCEPT !.isRunning = FALSE,
                             !.log = Append(@, <<"complete", s2.result>>)]

\* processChunk that reports progress before it advances the position
processChunk_progressBeforeUpdate(s) ==
    IF ~s.isRunning \/ s.isPaused THEN s
    ELSE LET totalLength == Len(data)
             end == Min(s.currentIndex + count, totalLength)
             s1 == handleRange(s, s.currentIndex, end)
             s2 == [s1 EXCEPT !.currentIndex = end,
                              !.log = Append(@, <<"progress", s.currentIndex, totalLength>>)]
         IN  IF s2.currentIndex < totalLength
             THEN setTimeout(s2, interval)
             ELSE [s2 EXCEPT !.isRunning = FALSE,
                             !.log = Append(@, <<"complete", s2.result>>)]

\* processChunk that rewinds the position when the run completes
processChunk_rewindOnComplete(s) ==
    IF ~s.isRunning \/ s.isPaused THEN s
    ELSE LET totalLength == Len(data)
             end == Min(s.currentIndex + count, totalLength)
             s1 == handleRange(s, s.currentIndex, end)
             s2 == [s1 EXCEPT !.currentIndex = end,
                              !.log = Append(@, <<"progress", end, totalLength>>)]
         IN  IF s2.currentIndex < totalLength
             THEN setTimeout(s2, interval)
             ELSE [s2 EXCEPT !.isRunning = FALSE, !.currentIndex = 0,
                             !.log = Append(@, <<"complete", s2.result>>)]

\* processChunk that advances the position before it transforms the chunk
processChunk_advanceFirst(s) ==
    IF ~s.isRunning \/ s.isPaused THEN s
    ELSE LET totalLength == Len(data)
             end == Min(s.currentIndex + count, totalLength)
         IN  IF throwsIn(s.currentIndex, end)
             THEN [handleRange(s, s.currentIndex, throwAt)
                     EXCEPT !.currentIndex = end,
                            !.log = Append(@, <<"throw", data[throwAt + 1], throwAt>>)]
             ELSE LET s1 == handleRange(s, s.currentIndex, end)
                      s2 == onProgress([s1 EXCEPT !.currentIndex = end], end, totalLength)
                  IN  IF s2.currentIndex < totalLength
                      THEN setTimeout(s2, interval)
                      ELSE [s2 EXCEPT !.isRunning = FALSE,
                                      !.log = Append(@, <<"complete", s2.result>>)]

\* processChunk that schedules no continuation
processChunk_noContinuation(s) ==
    IF ~s.isRunning \/ s.isPaused THEN s
    ELSE LET totalLength == Len(data)
             end == Min(s.currentIndex + count, totalLength)
         IN  IF throwsIn(s.currentIndex, end)
             THEN [handleRange(s, s.currentIndex, throwAt)
                     EXCEPT !.log = Append(@, <<"throw", data[throwAt + 1], throwAt>>)]
             ELSE LET s1 == handleRange(s, s.currentIndex, end)
                      s2 == onProgress([s1 EXCEPT !.currentIndex = end], end, totalLength)
                  IN  IF s2.currentIndex < totalLength
                      THEN s2
                      ELSE [s2 EXCEPT !.isRunning = FALSE,
                                      !.log = Append(@, <<"complete", s2.result>>)]

\* processChunk that clears the running flag when the transform throws
processChunk_throwDeactivates(s) ==
    IF ~s.isRunning \/ s.isPaused THEN s
    ELSE LET totalLength == Len(data)
             end == Min(s.currentIndex + count, totalLength)
         IN  IF throwsIn(s.currentIndex, end)
             THEN [handleRange(s, s.currentIndex, throwAt)
                     EXCEPT !.isRunning = FALSE,
                            !.log = Append(@, <<"throw", data[throwAt + 1], throwAt>>)]
             ELSE LET s1 == handleRange(s, s.currentIndex, end)
                      s2 == onProgress([s1 EXCEPT !.currentIndex = end], end, totalLength)
                  IN  IF s2.currentIndex < totalLength
                      THEN setTimeout(s2, interval)
                      ELSE [s2 EXCEPT !.isRunning = FALSE,
                                      !.log = Append(@, <<"complete", s2.result>>)]

\* a transform that throws at index throwAt ends the call there: the results of
\* the earlier indices of the chunk are written, nothing after the loop runs
processChunk(s) ==
    IF ~s.isRunning \/ s.isPaused THEN s
    ELSE LET totalLength == Len(data)
             end == Min(s.currentIndex + count, totalLength)
         IN  IF throwsIn(s.currentIndex, end)
             THEN [handleRange(s, s.currentIndex, throwAt)
                     EXCEPT !.log = Append(@, <<"throw", data[throwAt + 1], throwAt>>)]
             ELSE LET s1 == handleRange(s, s.currentIndex, end)
                      s2 == onProgress([s1 EXCEPT !.currentIndex = end], end, totalLength)
                  IN  IF s2.currentIndex < totalLength
                      THEN setTimeout(s2, interval)
                      ELSE [s2 EXCEPT !.isRunning = FALSE,
                                      !.log = Append(@, <<"complete", s2.result>>)]

\* start without the guard against a run in progress
start_noGuard(s) ==
    processChunk([s EXCEPT !.isRunning = TRUE, !.isPaused = FALSE,
                           !.currentIndex = 0, !.result = <<>>])

\* start whose guard lets a paused run be restarted
start_restartsPaused(s) ==
    IF s.isRunning /\ ~s.isPaused THEN s
    ELSE processChunk([s EXCEPT !.isRunning = TRUE, !.isPaused = FALSE,
                                !.currentIndex = 0, !.result = <<>>])

\* start that forgets to reset the processing position
start_keepIndex(s) ==
    IF s.isRunning THEN s
    ELSE processChunk([s EXCEPT !.isRunning = TRUE, !.isPaused = FALSE,
                                !.result = <<>>])

\* start that returns early on empty data
start_skipEmpty(s) ==
    IF s.isRunning \/ Len(data) = 0 THEN s
    ELSE processChunk([s EXCEPT !.isRunning = TRUE, !.isPaused = FALSE,
                                !.currentIndex = 0, !.result = <<>>])

\* start that keeps the results of the previous run
start_keepResult(s) ==
    IF s.isRunning THEN s
    ELSE processChunk([s EXCEPT !.isRunning = TRUE, !.isPaused = FALSE,
                                !.currentIndex = 0])

start(s) ==
    IF s.isRunning THEN s
    ELSE processChunk([s EXCEPT !.isRunning = TRUE, !.isPaused = FALSE,
                                !.currentIndex = 0, !.result = <<>>])

\* resume that schedules the next chunk instead of running it
resume_deferred(s) ==
    IF ~s.isRunning \/ ~s.isPaused THEN s
    ELSE setTimeout([s EXCEPT !.isPaused = FALSE], interval)

resume(s) ==
    IF ~s.isRunning \/ ~s.isPaused THEN s
    ELSE processChunk([s EXCEPT !.isPaused = FALSE])

\* the host runs a due timer: the entry leaves the queue, then its callback runs
fireTimer(s, t) == processChunk([s EXCEPT !.timers = @ \ {t}])

\* the closure state right after useTimeSlice() returns
Fresh == [isRunning |-> FALSE, isPaused |-> FALSE, timeoutId |-> NoTimer,
          currentIndex |-> 0, result |-> <<>>, timers |-> {}, log |-> <<>>]

\* the host runs every timer until none is pending (vi.runAllTimersAsync)
RECURSIVE runAllTimers(_)
runAllTimers(s) ==
    IF s.timers = {} THEN s
    ELSE runAllTimers(fireTimer(s, CHOOSE t \in s.timers : TRUE))

\* ------------------------------------------------- observers of the run
completions(l) == {k \in 1..Len(l) : l[k][1] = "complete"}
progresses(l) == {k \in 1..Len(l) : l[k][1] = "progress"}
handlerCalls(l) == SelectSeq(l, LAMBDA e : e[1] = "handler")

\* onComplete?.(result): the callback is handed the array result itself, not a
\* copy, so what the holder of that array reads later is what result holds then
onCompleteArg == result

\* the documented state machine, driven by the operations the host invokes and
\* by the completion callback
phaseAfter(op, ph, completed) ==
    CASE op = "start" /\ ph \notin {"Running", "Paused"} ->
            IF completed THEN "Completed" ELSE "Running"
      [] op = "pause" /\ ph = "Running" -> "Paused"
      [] op = "resume" /\ ph = "Paused" ->
            IF completed THEN "Completed" ELSE "Running"
      [] op = "stop" /\ ph \in {"Running", "Paused"} -> "Idle"
      [] op = "timer" /\ completed -> "Completed"
      [] OTHER -> ph

\* s: closure state before, n: after operation op; guard: op passed its guard;
\* stepped: a chunk step ran inside op
Commit(s, n, op, guard, stepped) ==
    /\ isRunning' = n.isRunning
    /\ isPaused' = n.isPaused
    /\ timeoutId' = n.timeoutId
    /\ currentIndex' = n.currentIndex
    /\ result' = n.result
    /\ timers' = n.timers
    /\ log' = n.log
    /\ elapsed' = IF stepped THEN 0 ELSE elapsed
    /\ lastOp' = op
    /\ acted' = guard
    /\ phase' = phaseAfter(op, phase, completions(n.log) # completions(s.log))
    /\ Len(n.log) <= MaxLog
    /\ Cardinality(n.timers) <= MaxTimers
    /\ UNCHANGED optVars
    /\ UNCHANGED <<fnVars, resetVars, scrollVars, inputVars>>

\* the closure state of a useDebounce / useThrottle wrapper right after creation
fnCreated ==
    /\ lastCallTime = 0
    /\ lastArgs = NoArgs
    /\ executeId = 0
    /\ pollers = {}
    /\ lastExecuteTime = 0
    /\ called = <<>>
    /\ execs = <<>>

\* the closure state of a scheduler right after useTimeSlice() returns, and what
\* its observers hold then
sliceCreated ==
    /\ isRunning = FALSE
    /\ isPaused = FALSE
    /\ timeoutId = NoTimer
    /\ currentIndex = 0
    /\ result = <<>>
    /\ timers = {}
    /\ log = <<>>
    /\ elapsed = 0
    /\ phase = "Idle"
    /\ runKind = "none"
    /\ wasPaused = FALSE

\* no scheduler exists
noScheduler ==
    /\ data = <<>> /\ count = 1 /\ interval = 0 /\ handlerKind = "double"
    /\ throwAt = NoThrow /\ onProgressOp = "none" /\ onProgressAt = 0
    /\ sliceCreated

\* no debounced or throttled function exists
noFn == delay = 0 /\ now = 0 /\ fnCreated

\* no resettable container exists
noContainers ==
    /\ factoryKind = "fresh"
    /\ kinds = [c \in Containers |-> "none"]
    /\ objs = <<>>
    /\ arrs = <<>>
    /\ initialValue = [c \in Containers |-> NoAddr]
    /\ state = [c \in Containers |-> NoAddr]
    /\ produced = [c \in Containers |-> NoValue]
    /\ kept = TRUE
    /\ who = 0

\* no component uses useScroll
noScroll ==
    /\ pageYOffset = 0
    /\ docScrollTop = 0
    /\ scrollTop = 0
    /\ isBottom = FALSE
    /\ scrollDirection = "none"
    /\ prevScrollTop = 0
    /\ mounted = "setup"

\* no input element carries a directive
noInput ==
    /\ directive = "none"
    /\ bindingValue = Undefined
    /\ limit = 0
    /\ value = <<>>
    /\ selectionStart = 0
    /\ isComposing = FALSE
    /\ entered = <<>>
    /\ dispatched = 0

\* a scheduler over a well-formed configuration: a positive chunk size, a
\* transform that returns, callbacks that leave the scheduler alone
Init ==
    /\ data \in SeqsUpTo(MaxLen)
    /\ count \in 1..MaxCount
    /\ interval \in 0..MaxInterval
    /\ handlerKind \in {"double", "indexed"}
    /\ throwAt = NoThrow
    /\ onProgressOp = "none"
    /\ onProgressAt = 0
    /\ sliceCreated
    /\ lastOp = "none"
    /\ acted = FALSE
    /\ noFn
    /\ noContainers
    /\ noScroll
    /\ noInput

\* a start() that passes its guard begins a new run: the observers start a new log
Start ==
    LET s == IF isRunning THEN St ELSE [St EXCEPT !.log = <<>>]
    IN  /\ Commit(s, start(s), "start", ~isRunning, ~isRunning)
        /\ wasPaused' = (isRunning /\ wasPaused)
        /\ runKind' = IF isRunning THEN runKind
                      ELSE IF runKind = "none" THEN "first"
                      ELSE IF phase = "Completed" THEN "afterComplete"
                      ELSE "afterStop"

Pause ==
    /\ Commit(St, pause(St), "pause", isRunning /\ ~isPaused, FALSE)
    /\ wasPaused' = (wasPaused \/ (isRunning /\ ~isPaused))
    /\ UNCHANGED runKind

Resume ==
    /\ Commit(St, resume(St), "resume", isRunning /\ isPaused, isRunning /\ isPaused)
    /\ UNCHANGED <<runKind, wasPaused>>

Stop ==
    /\ Commit(St, stop(St), "stop", isRunning, FALSE)
    /\ UNCHANGED <<runKind, wasPaused>>

\* a pending timer whose delay has elapsed fires (possibly late)
TimerFire ==
    \E t \in timers :
        /\ t.left = 0
        /\ Commit(St, fireTimer(St, t), "timer", stepRuns(St), stepRuns(St))
        /\ UNCHANGED <<runKind, wasPaused>>

\* one millisecond passes
Tick ==
    /\ timers' = {[id |-> t.id, left |-> IF t.left > 0 THEN t.left - 1 ELSE 0] : t \in timers}
    /\ elapsed' = Min(elapsed + 1, MaxInterval + 1)
    /\ lastOp' = "tick"
    /\ acted' = TRUE
    /\ UNCHANGED <<optVars, isRunning, isPaused, timeoutId,
                   currentIndex, result, log, phase, runKind, wasPaused>>
    /\ UNCHANGED <<fnVars, resetVars, scrollVars, inputVars>>

Next == Start \/ Pause \/ Resume \/ Stop \/ TimerFire \/ Tick

Spec == Init /\ [][Next]_vars

\* the arrays 1, 2, 1, 2, ... of every length: neighbours differ
Alternating == {[k \in 1..n |-> IF k % 2 = 1 THEN 1 ELSE 2] : n \in 0..MaxLen}

\* a scheduler whose transform throws at one index of data
InitThrow ==
    /\ data \in Alternating
    /\ throwAt \in 0..(Len(data) - 1)
    /\ count \in 1..MaxCount
    /\ interval \in 0..MaxInterval
    /\ handlerKind = "indexed"
    /\ onProgressOp = "none"
    /\ onProgressAt = 0
    /\ sliceCreated
    /\ lastOp = "none"
    /\ acted = FALSE
    /\ noFn
    /\ noContainers
    /\ noScroll
    /\ noInput

SpecThrow == InitThrow /\ [][Next]_vars

\* a scheduler created with a chunk size that is not positive, over non-empty
\* data
InitBadCount ==
    /\ data \in Alternating \ {<<>>}
    /\ count \in (1 - MaxCount)..0
    /\ interval \in 0..MaxInterval
    /\ handlerKind = "indexed"
    /\ throwAt = NoThrow
    /\ onProgressOp = "none"
    /\ onProgressAt = 0
    /\ sliceCreated
    /\ lastOp = "none"
    /\ acted = FALSE
    /\ noFn
    /\ noContainers
    /\ noScroll
    /\ noInput

SpecBadCount == InitBadCount /\ [][Next]_vars

\* a scheduler whose progress callback calls pause() or stop() of the scheduler
\* when a certain number of elements is reported done
InitReentrant ==
    /\ data \in Alternating \ {<<>>}
    /\ count \in 1..MaxCount
    /\ interval \in 0..MaxInterval
    /\ handlerKind = "indexed"
    /\ throwAt = NoThrow
    /\ onProgressOp \in {"pause", "stop"}
    /\ onProgressAt \in 1..Len(data)
    /\ sliceCreated
    /\ lastOp = "none"
    /\ acted = FALSE
    /\ noFn
    /\ noContainers
    /\ noScroll
    /\ noInput

SpecReentrant == InitReentrant /\ [][Next]_vars

\* a well-formed scheduler whose host never calls stop()
InitLive ==
    /\ data \in Alternating
    /\ count \in 1..MaxCount
    /\ interval \in 0..MaxInterval
    /\ handlerKind = "indexed"
    /\ throwAt = NoThrow
    /\ onProgressOp = "none"
    /\ onProgressAt = 0
    /\ sliceCreated
    /\ lastOp = "none"
    /\ acted = FALSE
    /\ noFn
    /\ noContainers
    /\ noScroll
    /\ noInput

NextLive == Start \/ Pause \/ Resume \/ TimerFire \/ Tick

\* time passes, the host runs a timer that is due, and the caller resumes a
\* scheduler it paused
SpecLive ==
    /\ InitLive /\ [][NextLive]_vars
    /\ WF_vars(Tick) /\ WF_vars(TimerFire) /\ WF_vars(isPaused /\ Resume)

TypeOK ==
    /\ isRunning \in BOOLEAN
    /\ isPaused \in BOOLEAN
    /\ timeoutId \in Nat
    /\ currentIndex \in Int
    /\ result \in Seq(Int)
    /\ \A t \in timers : t.id \in Nat \ {NoTimer} /\ t.left \in 0..interval
    /\ elapsed \in 0..(MaxInterval + 1)
    /\ phase \in {"Idle", "Running", "Paused", "Completed"}

\* ------------------------------------------- useDebounce / useThrottle
\* the arguments a call passes
Args == {1, 2}

\* the closure state of a wrapper and what its observers recorded
Fn == [lastCallTime |-> lastCallTime, lastArgs |-> lastArgs, executeId |-> executeId,
       pollers |-> pollers, lastExecuteTime |-> lastExecuteTime,
       called |-> called, execs |-> execs]

\* fn(...args) at time t: the observer notes how many called had been made
fn(f, args, t) ==
    [f EXCEPT !.execs = Append(@, [args |-> args, time |-> t, ncalls |-> Len(f.called)])]

\* requestAnimationFrame(checkTime) / Promise.resolve().then(checkTime)
queueCheck(f, currentId) == [f EXCEPT !.pollers = @ \cup {currentId}]

\* checkTime that does not compare its id with executeId
checkTime_noIdCheck(f, currentId, t) ==
    IF t - f.lastCallTime >= delay THEN fn(f, f.lastArgs, t)
    ELSE queueCheck(f, currentId)

\* checkTime that gives up when the delay has not passed yet
checkTime_noRequeue(f, currentId, t) ==
    IF currentId # f.executeId THEN f
    ELSE IF t - f.lastCallTime >= delay THEN fn(f, f.lastArgs, t)
    ELSE f

\* checkTime of the poller created for currentId, run at time t
checkTime(f, currentId, t) ==
    IF currentId # f.executeId THEN f
    ELSE IF t - f.lastCallTime >= delay THEN fn(f, f.lastArgs, t)
    ELSE queueCheck(f, currentId)

scheduleExecution(f, currentId) == queueCheck(f, currentId)

\* the debounced function without the update of lastCallTime
debounced_noStamp(f, args, t) ==
    LET f1 == [f EXCEPT !.called = Append(@, [args |-> args, time |-> t]),
                        !.lastArgs = args,
                        !.executeId = @ + 1]
    IN  scheduleExecution(f1, f1.executeId)

\* the function useDebounce returns, called with args at time t
debounced(f, args, t) ==
    LET f1 == [f EXCEPT !.called = Append(@, [args |-> args, time |-> t]),
                        !.lastCallTime = t,
                        !.lastArgs = args,
                        !.executeId = @ + 1]
    IN  scheduleExecution(f1, f1.executeId)

\* the throttled function without the update of lastExecuteTime
throttled_noStamp(f, args, t) ==
    LET f1 == [f EXCEPT !.called = Append(@, [args |-> args, time |-> t])]
    IN  IF t - f1.lastExecuteTime >= delay THEN fn(f1, args, t) ELSE f1

\* the throttled function that wants more than delay to have passed
throttled_strict(f, args, t) ==
    LET f1 == [f EXCEPT !.called = Append(@, [args |-> args, time |-> t])]
    IN  IF t - f1.lastExecuteTime > delay
        THEN fn([f1 EXCEPT !.lastExecuteTime = t], args, t)
        ELSE f1

\* the function useThrottle returns, called with args at time t
throttled(f, args, t) ==
    LET f1 == [f EXCEPT !.called = Append(@, [args |-> args, time |-> t])]
    IN  IF t - f1.lastExecuteTime >= delay
        THEN fn([f1 EXCEPT !.lastExecuteTime = t], args, t)
        ELSE f1

CommitFn(n, op) ==
    /\ lastCallTime' = n.lastCallTime
    /\ lastArgs' = n.lastArgs
    /\ executeId' = n.executeId
    /\ pollers' = n.pollers
    /\ lastExecuteTime' = n.lastExecuteTime
    /\ called' = n.called
    /\ execs' = n.execs
    /\ lastOp' = op
    /\ acted' = (n.execs # execs)
    /\ UNCHANGED <<delay, now>>
    /\ UNCHANGED <<sliceVars, resetVars, scrollVars, inputVars>>

\* a wrapper created with some delay at some reading of the clock; no scheduler
InitFn ==
    /\ delay \in 0..MaxDelay
    /\ now \in 0..MaxDelay
    /\ fnCreated
    /\ noScheduler
    /\ lastOp = "none"
    /\ acted = FALSE
    /\ noContainers
    /\ noScroll
    /\ noInput

DebouncedCall ==
    \E a \in Args :
        /\ Len(called) < MaxCalls
        /\ CommitFn(debounced(Fn, a, now), "call")

\* the host runs the queued checkTime callback of the poller created for id
PollOne(id) ==
    /\ id \in pollers
    /\ CommitFn(checkTime([Fn EXCEPT !.pollers = @ \ {id}], id, now), "poll")

\* the host runs one queued checkTime callback
Poll == \E id \in pollers : PollOne(id)

ThrottledCall ==
    \E a \in Args :
        /\ Len(called) < MaxCalls
        /\ CommitFn(throttled(Fn, a, now), "throttled")

\* the clock advances by one millisecond
Advance ==
    /\ now < MaxTime
    /\ now' = now + 1
    /\ lastOp' = "advance"
    /\ acted' = FALSE
    /\ UNCHANGED <<delay, lastCallTime, lastArgs, executeId, pollers,
                   lastExecuteTime, called, execs>>
    /\ UNCHANGED <<sliceVars, resetVars, scrollVars, inputVars>>

NextDebounce == DebouncedCall \/ Poll \/ Advance

SpecDebounce == InitFn /\ [][NextDebounce]_vars

\* a wrapper created when the clock reads 0
InitFnLive == InitFn /\ now = 0

\* a call of the debounced function whose argument differs from that of the
\* call before it
AlternatingCall ==
    /\ Len(called) < MaxCalls
    /\ CommitFn(debounced(Fn, (Len(called) % 2) + 1, now), "call")

NextDebounceLive == AlternatingCall \/ Poll \/ Advance

\* the clock advances and the host runs every queued callback in the end
SpecDebounceLive ==
    /\ InitFnLive /\ [][NextDebounceLive]_vars
    /\ WF_vars(Advance)
    /\ \A id \in 1..MaxCalls : WF_vars(PollOne(id))

NextThrottle == ThrottledCall \/ Advance

SpecThrottle == InitFn /\ [][NextThrottle]_vars

\* ------------------------------- useResettableRef / useResettableReactive
\* the identities an object or an array can have
Addr == 1..(3 * Cardinality(Containers))

\* the one object a factory of the form () => shared returns on every call
SharedAddr == 1

\* the value a factory builds: { count: 0, a: [1] }
InitialValue == [count |-> 0, extra |-> Absent, a |-> <<1>>]

\* the empty heap
Rs0 == [objs |-> <<>>, arrs |-> <<>>,
        initialValue |-> [c \in Containers |-> NoAddr],
        state |-> [c \in Containers |-> NoAddr]]

\* the heap and the containers' references as one value
Rs == [objs |-> objs, arrs |-> arrs, initialValue |-> initialValue, state |-> state]

\* the identity of a newly created object: the first one that is not in use
newAddr(h) == CHOOSE x \in Addr \ DOMAIN h : \A y \in Addr \ DOMAIN h : x <= y

\* the value of the object t as deep equality sees it
deepOf(o, ar, t) == [count |-> o[t].count, extra |-> o[t].extra, a |-> ar[o[t].a]]

deepValue(r, t) == deepOf(r.objs, r.arrs, t)

\* a new object, with a new array inside, holding the value d
build(r, d) ==
    LET t == newAddr(r.objs)
        x == newAddr(r.arrs)
    IN  [r |-> [r EXCEPT !.objs = (t :> [count |-> d.count, extra |-> d.extra, a |-> x]) @@ @,
                         !.arrs = (x :> d.a) @@ @],
         at |-> t]

\* cloneDeep(v): a structure that shares nothing with v and is deep-equal to it
cloneDeep(r, t) == build(r, deepValue(r, t))

\* val(): a factory either builds the value anew or hands out one shared object
val(r) ==
    IF factoryKind = "shared" THEN [r |-> r, at |-> SharedAddr]
    ELSE build(r, InitialValue)

\* const initialValue = cloneDeep(val()); const state = ref<T>(val())
useResettableRef(r, c) ==
    LET v1 == val(r)
        c1 == cloneDeep(v1.r, v1.at)
        v2 == val(c1.r)
    IN  [v2.r EXCEPT !.initialValue[c] = c1.at, !.state[c] = v2.at]

\* reset that hands out initialValue itself
resetRef_noClone(r, c) == [r EXCEPT !.state[c] = r.initialValue[c]]

\* state.value = cloneDeep(initialValue)
resetRef(r, c) ==
    LET cl == cloneDeep(r, r.initialValue[c])
    IN  [cl.r EXCEPT !.state[c] = cl.at]

\* const state = reactive(cloneDeep(val()))
useResettableReactive(r, c) ==
    LET v == val(r)
        cl == cloneDeep(v.r, v.at)
    IN  [cl.r EXCEPT !.state[c] = cl.at]

\* an object after every key was deleted
NoKeys == [count |-> Absent, extra |-> Absent, a |-> NoAddr]

\* Object.assign(target, source): every key of source is written to target
ObjectAssign(target, source) ==
    [count |-> IF source.count # Absent THEN source.count ELSE target.count,
     extra |-> IF source.extra # Absent THEN source.extra ELSE target.extra,
     a |-> IF source.a # NoAddr THEN source.a ELSE target.a]

\* reset without the loop that deletes the keys
resetReactive_noDelete(r, c) ==
    LET t == r.state[c]
        v == val(r)
        cl == cloneDeep(v.r, v.at)
    IN  [cl.r EXCEPT !.objs[t] = ObjectAssign(@, cl.r.objs[cl.at])]

\* for (const key of Object.keys(state)) delete state[key]
\* Object.assign(state, cloneDeep(val()))
resetReactive(r, c) ==
    LET t == r.state[c]
        r1 == [r EXCEPT !.objs[t] = NoKeys]
        v == val(r1)
        cl == cloneDeep(v.r, v.at)
    IN  [cl.r EXCEPT !.objs[t] = ObjectAssign(@, cl.r.objs[cl.at])]

\* state.count = 1 (state.value.count = 1 through a ref)
setCount(r, c) == [r EXCEPT !.objs[r.state[c]].count = 1]

\* state.extra = 1: a key the initial value does not have
addKey(r, c) == [r EXCEPT !.objs[r.state[c]].extra = 1]

\* state.a.push(2)
push(r, c) == [r EXCEPT !.arrs[r.objs[r.state[c]].a] = Append(@, 2)]

\* the references the program holds, in a fixed order: the factory's shared
\* object, then initialValue and state of every container
rootSeq(r) ==
    [j \in 1..(1 + 2 * Cardinality(Containers)) |->
        IF j = 1 THEN (IF factoryKind = "shared" THEN SharedAddr ELSE NoAddr)
        ELSE IF j % 2 = 0 THEN r.initialValue[j \div 2]
        ELSE r.state[(j - 1) \div 2]]

\* the position of an identity among the distinct ones of q, in order of first use
rank(q, t) ==
    IF t = NoAddr THEN NoAddr
    ELSE LET first == CHOOSE j \in 1..Len(q) : q[j] = t /\ \A k \in 1..(j - 1) : q[k] # t
         IN  Cardinality({q[k] : k \in 1..first} \ {NoAddr})

\* the garbage collector: what no container and no factory refers to is gone;
\* identities are only compared for equality, so the objects that stay are
\* numbered in the order of the references to them
collect(r) ==
    LET q == rootSeq(r)
        live == {q[j] : j \in 1..Len(q)} \ {NoAddr}
        aq == [j \in 1..Len(q) |-> IF q[j] = NoAddr THEN NoAddr ELSE r.objs[q[j]].a]
        liveArr == {aq[j] : j \in 1..Len(aq)} \ {NoAddr}
    IN  [objs |-> [n \in 1..Cardinality(live) |->
                     [r.objs[CHOOSE t \in live : rank(q, t) = n] EXCEPT !.a = rank(aq, @)]],
         arrs |-> [n \in 1..Cardinality(liveArr) |->
                     r.arrs[CHOOSE x \in liveArr : rank(aq, x) = n]],
         initialValue |-> [c \in Containers |-> rank(q, r.initialValue[c])],
         state |-> [c \in Containers |-> rank(q, r.state[c])]]

\* n: the heap after operation op on container c; changed: whether the
\* operation changed the value of the container's state; kept notes whether the
\* container's state is still the same object
CommitR(n, op, c, changed) ==
    \E g \in {collect(n)} :
        /\ objs' = g.objs
        /\ arrs' = g.arrs
        /\ initialValue' = g.initialValue
        /\ state' = g.state
        /\ kept' = (n.state[c] = state[c])
        /\ who' = c
        /\ lastOp' = op
        /\ acted' = changed
        /\ UNCHANGED factoryKind
        /\ UNCHANGED <<sliceVars, fnVars, scrollVars, inputVars>>

\* whether n gives the state of container c another value than it has now
changes(n, c) == deepValue(n, n.state[c]) # deepValue(Rs, state[c])

\* a component's setup before it created a container: the factory exists
InitResettable ==
    /\ factoryKind \in {"fresh", "shared"}
    /\ kinds = [c \in Containers |-> "none"]
    /\ objs = IF factoryKind = "shared" THEN build(Rs0, InitialValue).r.objs ELSE <<>>
    /\ arrs = IF factoryKind = "shared" THEN build(Rs0, InitialValue).r.arrs ELSE <<>>
    /\ initialValue = [c \in Containers |-> NoAddr]
    /\ state = [c \in Containers |-> NoAddr]
    /\ produced = [c \in Containers |-> NoValue]
    /\ kept = TRUE
    /\ who = 0
    /\ lastOp = "none"
    /\ acted = FALSE
    /\ noScheduler
    /\ noFn
    /\ noScroll
    /\ noInput

\* the value the factory returns now
factoryValue == IF factoryKind = "shared" THEN deepValue(Rs, SharedAddr) ELSE InitialValue

CreateRef ==
    \E c \in Containers :
        /\ kinds[c] = "none"
        /\ kinds' = [kinds EXCEPT ![c] = "ref"]
        /\ produced' = [produced EXCEPT ![c] = factoryValue]
        /\ \E n \in {useResettableRef(Rs, c)} : CommitR(n, "create", c, TRUE)

CreateReactive ==
    \E c \in Containers :
        /\ kinds[c] = "none"
        /\ kinds' = [kinds EXCEPT ![c] = "reactive"]
        /\ produced' = [produced EXCEPT ![c] = factoryValue]
        /\ \E n \in {useResettableReactive(Rs, c)} : CommitR(n, "create", c, TRUE)

SetCount ==
    \E c \in Containers :
        /\ kinds[c] # "none"
        /\ \E n \in {setCount(Rs, c)} : CommitR(n, "setCount", c, changes(n, c))
        /\ UNCHANGED <<kinds, produced>>

AddKey ==
    \E c \in Containers :
        /\ kinds[c] # "none"
        /\ \E n \in {addKey(Rs, c)} : CommitR(n, "addKey", c, changes(n, c))
        /\ UNCHANGED <<kinds, produced>>

Push ==
    \E c \in Containers :
        /\ kinds[c] # "none"
        /\ Len(deepValue(Rs, state[c]).a) < MaxArr
        /\ \E n \in {push(Rs, c)} : CommitR(n, "push", c, TRUE)
        /\ UNCHANGED <<kinds, produced>>

ResetRef ==
    \E c \in Containers :
        /\ kinds[c] = "ref"
        /\ \E n \in {resetRef(Rs, c)} : CommitR(n, "reset", c, changes(n, c))
        /\ UNCHANGED <<kinds, produced>>

ResetReactive ==
    \E c \in Containers :
        /\ kinds[c] = "reactive"
        /\ \E n \in {resetReactive(Rs, c)} : CommitR(n, "reset", c, changes(n, c))
        /\ UNCHANGED <<kinds, produced>>

NextResettable ==
    \/ CreateRef \/ CreateReactive
    \/ SetCount \/ AddKey \/ Push
    \/ ResetRef \/ ResetReactive

SpecResettable == InitResettable /\ [][NextResettable]_vars


\* --------------------------------------------------------------- useScroll
\* the targets a scroll event can carry: the document (no scrollHeight or
\* clientHeight), a tall element, and an element that fits without scrolling
Targets == {[scrollHeight |-> NoHeight, clientHeight |-> NoHeight],
            [scrollHeight |-> MaxScroll + 1, clientHeight |-> 2],
            [scrollHeight |-> 2, clientHeight |-> 2]}

\* the refs of one useScroll instance as one value
Sc == [scrollTop |-> scrollTop, isBottom |-> isBottom,
       scrollDirection |-> scrollDirection, prevScrollTop |-> prevScrollTop]

\* handleScroll that does not record the position it has seen
handleScroll_keepPrev(s, event, y, d) ==
    LET top == IF y # 0 THEN y ELSE d
        bottom == /\ event.scrollHeight # NoHeight /\ event.clientHeight # NoHeight
                  /\ top + event.clientHeight >= event.scrollHeight
        direction == IF top > s.prevScrollTop THEN "down"
                     ELSE IF top < s.prevScrollTop THEN "up"
                     ELSE "none"
    IN  [s EXCEPT !.scrollTop = top, !.isBottom = bottom,
                  !.scrollDirection = direction]

\* handleScroll(event) with window.pageYOffset = y and
\* document.documentElement.scrollTop = d; a comparison with an undefined
\* height is false
handleScroll(s, event, y, d) ==
    LET top == IF y # 0 THEN y ELSE d
        bottom == /\ event.scrollHeight # NoHeight /\ event.clientHeight # NoHeight
                  /\ top + event.clientHeight >= event.scrollHeight
        direction == IF top > s.prevScrollTop THEN "down"
                     ELSE IF top < s.prevScrollTop THEN "up"
                     ELSE "none"
    IN  [s EXCEPT !.scrollTop = top, !.isBottom = bottom,
                  !.scrollDirection = direction, !.prevScrollTop = top]

\* the window is at (y, d) and the hook's state is n after operation op
CommitSc(n, y, d, op, heard) ==
    /\ pageYOffset' = y
    /\ docScrollTop' = d
    /\ scrollTop' = n.scrollTop
    /\ isBottom' = n.isBottom
    /\ scrollDirection' = n.scrollDirection
    /\ prevScrollTop' = n.prevScrollTop
    /\ lastOp' = op
    /\ acted' = heard
    /\ UNCHANGED <<sliceVars, fnVars, resetVars, inputVars>>

\* useScroll() was called in the setup of a component that is not mounted yet
InitScroll ==
    /\ noScroll
    /\ lastOp = "none"
    /\ acted = FALSE
    /\ noScheduler
    /\ noFn
    /\ noContainers
    /\ noInput

\* onMounted: window.addEventListener("scroll", handleScroll)
Mount ==
    /\ mounted = "setup"
    /\ mounted' = "mounted"
    /\ CommitSc(Sc, pageYOffset, docScrollTop, "mount", FALSE)

\* onUnmounted: window.removeEventListener("scroll", handleScroll)
Unmount ==
    /\ mounted = "mounted"
    /\ mounted' = "unmounted"
    /\ CommitSc(Sc, pageYOffset, docScrollTop, "unmount", FALSE)

\* the window scrolls and dispatches a scroll event; the listener runs if it is
\* registered
Scroll ==
    \E y \in 0..MaxScroll, d \in 0..MaxScroll, event \in Targets :
        /\ IF mounted = "mounted"
           THEN CommitSc(handleScroll(Sc, event, y, d), y, d, "scroll", TRUE)
           ELSE CommitSc(Sc, y, d, "scrollUnheard", FALSE)
        /\ UNCHANGED mounted

\* scrollToTop(): window.scrollTo({ top: 0 }) brings the window to the top, which
\* dispatches a scroll event with the document as its target
ScrollToTop ==
    /\ IF mounted = "mounted"
       THEN CommitSc(handleScroll(Sc, [scrollHeight |-> NoHeight, clientHeight |-> NoHeight],
                                  0, 0), 0, 0, "scroll", TRUE)
       ELSE CommitSc(Sc, 0, 0, "scrollUnheard", FALSE)
    /\ UNCHANGED mounted

NextScroll == Mount \/ Unmount \/ Scroll \/ ScrollToTop

SpecScroll == InitScroll /\ [][NextScroll]_vars

\* ------------------------------------------------ integerOnly / decimalOnly
\* a text is a sequence of one-character strings
DigitChars == <<"0", "1", "2", "3", "4", "5", "6", "7", "8", "9">>

\* \d
Digits == {DigitChars[k] : k \in 1..Len(DigitChars)}

\* the characters a user enters: two digits, the point and a letter
Keys == {"1", "2", ".", "a"}

RECURSIVE TextsUpTo(_)
TextsUpTo(n) ==
    IF n = 0 THEN {<<>>}
    ELSE LET shorter == TextsUpTo(n - 1)
         IN shorter \cup {Append(q, x) : q \in {r \in shorter : Len(r) = n - 1}, x \in Keys}

Max(a, b) == IF a > b THEN a ELSE b

\* Number.prototype.toString of a non-negative integer
RECURSIVE toString(_)
toString(n) ==
    IF n < 10 THEN <<DigitChars[n + 1]>>
    ELSE Append(toString(n \div 10), DigitChars[(n % 10) + 1])

\* String.prototype.slice(0, e): a negative e counts from the end
slice(t, e) ==
    LET last == IF e < 0 THEN Max(Len(t) + e, 0) ELSE Min(e, Len(t))
    IN  SubSeq(t, 1, last)

\* String.prototype.substring(from) for 0 <= from
substring(t, from) == SubSeq(t, from + 1, Len(t))

\* String.prototype.indexOf("."): the 0-based position of the first point, or -1
indexOfDot(t) ==
    IF \E k \in 1..Len(t) : t[k] = "."
    THEN (CHOOSE k \in 1..Len(t) : t[k] = "." /\ \A j \in 1..(k - 1) : t[j] # ".") - 1
    ELSE -1

\* replace(/\D/g, "")
removeNonDigits(t) == SelectSeq(t, LAMBDA ch : ch \in Digits)

\* replace(/[^\d.]/g, "")
removeNonDecimal(t) == SelectSeq(t, LAMBDA ch : ch \in Digits \cup {"."})

\* replace(/^\./, "")
removeLeadingDot(t) == IF Len(t) > 0 /\ t[1] = "." THEN Tail(t) ELSE t

\* replace(/\./g, "")
removeDots(t) == SelectSeq(t, LAMBDA ch : ch # ".")

\* the integer filter cutting the text before it removes the other characters
filterInteger_sliceFirst(t, lim) == removeNonDigits(slice(t, lim))

\* originalValue.replace(/\D/g, "").slice(0, limit)
filterInteger(t, lim) == slice(removeNonDigits(t), lim)

\* the decimal filter without the limit on the digits after the point
filterDecimal_noPrecision(t, lim) ==
    LET v1 == removeLeadingDot(removeNonDecimal(t))
        firstDotIndex == indexOfDot(v1)
    IN  IF firstDotIndex # -1
        THEN substring(slice(v1, firstDotIndex + 1), 0)
                \o removeDots(substring(v1, firstDotIndex + 1))
        ELSE v1

\* the decimal filter of decimalOnly.handleInput and of formatDecimal: the
\* characters other than digits and points go, then one leading point, then
\* every point after the first, then the digits beyond limit after the point
filterDecimal(t, lim) ==
    LET v1 == removeLeadingDot(removeNonDecimal(t))
        firstDotIndex == indexOfDot(v1)
        v2 == IF firstDotIndex # -1
              THEN slice(v1, firstDotIndex + 1)
                      \o removeDots(substring(v1, firstDotIndex + 1))
              ELSE v1
        dotIndex == indexOfDot(v2)
    IN  IF dotIndex # -1 /\ Len(v2) - dotIndex - 1 > lim
        THEN slice(v2, dotIndex + lim + 1)
        ELSE v2

\* formatInteger(value, limit) for a number
formatInteger(v, lim) == slice(removeNonDigits(toString(v)), lim)

\* formatDecimal(value, limit) for a number
formatDecimal(v, lim) == filterDecimal(toString(v), lim)

\* the input element as one value
El == [value |-> value, selectionStart |-> selectionStart, dispatched |-> dispatched]

\* what handleInput does with the filtered text newValue: if it differs, it is
\* written, the cursor moves back by the number of characters lost, and a new
\* input event is dispatched
rewrite(e, newValue) ==
    LET lengthDiff == Len(e.value) - Len(newValue)
        newCursorPos == IF e.selectionStart # 0
                        THEN Max(0, e.selectionStart - lengthDiff) ELSE 0
    IN  [value |-> newValue,
         selectionStart |-> Min(newCursorPos, Len(newValue)),
         dispatched |-> e.dispatched + 1]

\* integerOnly: handleInput(e), entered with isComposing = composing; the event
\* it dispatches is handled by the same listener before dispatchEvent returns
RECURSIVE handleInputInteger(_, _)
handleInputInteger(e, composing) ==
    IF composing THEN e
    ELSE LET newValue == filterInteger(e.value, limit)
         IN  IF newValue # e.value
             THEN handleInputInteger(rewrite(e, newValue), composing)
             ELSE e

\* the decimal handler writing the filtered text without dispatching the new
\* input event
handleInputDecimal_noDispatch(e, composing) ==
    IF composing THEN e
    ELSE LET newValue == filterDecimal(e.value, limit)
         IN  IF newValue # e.value THEN rewrite(e, newValue) ELSE e

\* decimalOnly: handleInput(e)
RECURSIVE handleInputDecimal(_, _)
handleInputDecimal(e, composing) ==
    IF composing THEN e
    ELSE LET newValue == filterDecimal(e.value, limit)
         IN  IF newValue # e.value
             THEN handleInputDecimal(rewrite(e, newValue), composing)
             ELSE e

\* the listener without the isComposing test
handleInput_noComposingGuard(e, composing) ==
    IF directive = "integer" THEN handleInputInteger(e, FALSE)
    ELSE handleInputDecimal(e, FALSE)

\* the listener the bound directive registered
handleInput(e, composing) ==
    IF directive = "integer" THEN handleInputInteger(e, composing)
    ELSE handleInputDecimal(e, composing)

\* binding.value ?? 2
limitOf(b) == IF b = Undefined THEN 2 ELSE b

\* the text mounted() and updated() derive from the binding value
formatted(b) ==
    IF directive = "integer" THEN formatInteger(b, limitOf(b))
    ELSE formatDecimal(b, limitOf(b))

CommitIn(n, op, handled) ==
    /\ value' = n.value
    /\ selectionStart' = n.selectionStart
    /\ dispatched' = n.dispatched
    /\ lastOp' = op
    /\ acted' = handled
    /\ UNCHANGED <<directive, limit, entered>>
    /\ UNCHANGED <<sliceVars, fnVars, resetVars, scrollVars>>

\* an empty input element right after mounted() of the directive ran with some
\* binding value; entered is the text the user is going to put in
InitInput ==
    /\ directive \in {"integer", "decimal"}
    /\ bindingValue \in {Undefined} \cup 0..MaxLimit
    /\ limit = limitOf(bindingValue)
    /\ value = IF bindingValue # Undefined THEN formatted(bindingValue) ELSE <<>>
    /\ selectionStart = Len(value)
    /\ isComposing = FALSE
    /\ entered \in TextsUpTo(MaxText)
    /\ dispatched = 0
    /\ lastOp = "none"
    /\ acted = FALSE
    /\ noScheduler
    /\ noFn
    /\ noContainers
    /\ noScroll

\* the user replaces the content by the text, leaving the cursor somewhere in
\* it; the element dispatches an input event
Input ==
    \E pos \in 0..Len(entered) :
        /\ CommitIn(handleInput([value |-> entered, selectionStart |-> pos,
                                 dispatched |-> 0], isComposing),
                    "input", ~isComposing)
        /\ UNCHANGED <<bindingValue, isComposing>>

\* compositionstart
CompositionStart ==
    /\ ~isComposing
    /\ isComposing' = TRUE
    /\ CommitIn(El, "compositionstart", FALSE)
    /\ UNCHANGED bindingValue

\* compositionend: isComposing = false; handleInput(e)
CompositionEnd ==
    /\ isComposing
    /\ isComposing' = FALSE
    /\ CommitIn(handleInput([El EXCEPT !.dispatched = 0], FALSE), "compositionend", TRUE)
    /\ UNCHANGED bindingValue

\* updated(): the component re-rendered, possibly with another binding value
Updated ==
    \E b \in {Undefined} \cup 0..MaxLimit :
        /\ bindingValue' = b
        /\ CommitIn(IF b # Undefined /\ formatted(b) # value
                    THEN [El EXCEPT !.value = formatted(b),
                                    !.selectionStart = Len(formatted(b))]
                    ELSE El,
                    "updated", b # Undefined /\ formatted(b) # value)
        /\ UNCHANGED isComposing

NextInput == Input \/ CompositionStart \/ CompositionEnd \/ Updated

SpecInput == InitInput /\ [][NextInput]_vars

\* ------------------------------------------------------------------ C1
\* the run is over without a stop(): it was started and is no longer active
runEnded == runKind # "none" /\ ~isRunning /\ phase # "Idle"

\* the value transform yields for every element, in index order
expectedResult == [k \in 1..Len(data) |-> handler(data[k], k - 1)]

\* C1: a run over non-empty items that was never paused or stopped ends with the
\* completion callback receiving results of the length of items, with
\* results[i] = transform(items[i], i) for every index i.
C1_CompleteResults ==
    (runEnded /\ ~wasPaused /\ Len(data) > 0) =>
        /\ Len(log) > 0
        /\ log[Len(log)][1] = "complete"
        /\ Len(log[Len(log)][2]) = Len(data)
        /\ log[Len(log)][2] = expectedResult

C1_Witness ==
    /\ runEnded /\ ~wasPaused
    /\ Len(data) = 4 /\ count = 3 /\ handlerKind = "indexed"
    /\ lastOp = "timer"
    /\ log[Len(log)] = <<"complete", expectedResult>>

\* ------------------------------------------------------------------ C2
\* C2: in every run that reaches completion the completion callback fires exactly
\* once, after the last progress callback of the run, and no progress callback
\* fires after it.
C2_CompleteOnceLast ==
    /\ Cardinality(completions(log)) <= 1
    /\ runEnded => Cardinality(completions(log)) = 1
    /\ \A c \in completions(log) :
          /\ \A p \in progresses(log) : p < c
          /\ \E p \in progresses(log) : p = c - 1
          /\ c = Len(log)

C2_Witness ==
    /\ runEnded
    /\ Cardinality(progresses(log)) = 4
    /\ log[Len(log)][1] = "complete"
    /\ log[Len(log) - 1] = <<"progress", 4, 4>>

\* ------------------------------------------------------------------ C3
\* C3: within one run, whatever the interleaving of pause(), resume(), redundant
\* start() calls and timer firings, transform is invoked on the indices
\* 0, 1, 2, ... in ascending order without gap or repetition, and on every index
\* exactly once when the run completes.
C3_EachIndexOnceInOrder ==
    LET calls == handlerCalls(log)
    IN  /\ Len(calls) <= Len(data)
        /\ \A k \in 1..Len(calls) : calls[k] = <<"handler", data[k], k - 1>>
        /\ runEnded => Len(calls) = Len(data)

C3_Witness ==
    /\ runEnded /\ wasPaused
    /\ Len(data) = 4 /\ count = 2
    /\ Len(handlerCalls(log)) = 4

\* ------------------------------------------------------------------ C4
\* C4: once pause() has taken effect no continuation is pending, and until
\* resume() or stop() is called no step changes cursor, results or the callbacks'
\* log, however much time passes.
C4_PausedFrozen ==
    /\ [](isRunning /\ isPaused => timers = {})
    /\ [][(isRunning /\ isPaused /\ lastOp' \notin {"resume", "stop"}) =>
            (currentIndex' = currentIndex /\ result' = result /\ log' = log
             /\ timers' = {})]_vars

C4_Witness ==
    /\ isRunning /\ isPaused
    /\ lastOp = "tick" /\ elapsed > interval
    /\ currentIndex > 0 /\ currentIndex < Len(data)

\* ------------------------------------------------------------------ C5
\* C5: resume() called while Paused with elements left processes the next chunk
\* inside the call: cursor has advanced by min(chunkSize, len - cursor) when it
\* returns, with no time passing.
C5_ResumeStepsNow ==
    [][(lastOp' = "resume" /\ phase = "Paused" /\ currentIndex < Len(data)) =>
         /\ currentIndex' = currentIndex + Min(count, Len(data) - currentIndex)
         /\ Len(handlerCalls(log')) = currentIndex'
         /\ elapsed' = 0]_vars

C5_Witness ==
    /\ lastOp = "resume" /\ acted
    /\ isRunning /\ ~isPaused
    /\ currentIndex = 2 * count /\ currentIndex < Len(data)

\* ------------------------------------------------------------------ C6
\* C6: stop() while Running or Paused leaves cursor = 0, results empty and the
\* activity flag false, and afterwards (until a new run is started) no transform
\* invocation, progress callback or completion callback happens.
C6_StopResetsAndSilences ==
    /\ [][(lastOp' = "stop" /\ phase \in {"Running", "Paused"}) =>
            (currentIndex' = 0 /\ result' = <<>> /\ ~isRunning')]_vars
    /\ [][(phase = "Idle" /\ runKind # "none" /\ lastOp' # "start") =>
            (log' = log /\ currentIndex' = 0 /\ result' = <<>>)]_vars

C6_Witness ==
    /\ phase = "Idle" /\ runKind # "none"
    /\ lastOp = "tick" /\ elapsed > interval
    /\ Len(handlerCalls(log)) = 2 /\ Len(data) = 4
    /\ completions(log) = {}
    /\ currentIndex = 0 /\ result = <<>> /\ ~isRunning

\* ------------------------------------------------------------------ C7
\* C7: start() while Running or Paused is a complete no-op: cursor, results, both
\* flags, the stored handle and the pending continuations are unchanged and
\* neither transform nor a callback is invoked.
C7_StartWhileActiveNoOp ==
    [][(lastOp' = "start" /\ phase \in {"Running", "Paused"}) =>
         UNCHANGED progVars]_vars

C7_Witness ==
    /\ lastOp = "start" /\ ~acted
    /\ phase = "Paused"
    /\ currentIndex > 0 /\ Len(result) = currentIndex

\* ------------------------------------------------------------------ C8
\* C8: pause() outside Running, resume() outside Paused and stop() outside
\* Running/Paused change no scheduler state and trigger no transform or callback;
\* stop() after completion keeps results and cursor.
C8_GuardedOpsNoOp ==
    [][(\/ lastOp' = "pause" /\ phase # "Running"
        \/ lastOp' = "resume" /\ phase # "Paused"
        \/ lastOp' = "stop" /\ phase \notin {"Running", "Paused"}) =>
         UNCHANGED progVars]_vars

C8_Witness ==
    /\ lastOp = "stop" /\ ~acted
    /\ phase = "Completed"
    /\ Len(data) > 0 /\ currentIndex = Len(data) /\ result = expectedResult
\* ------------------------------------------------------------------ C9
\* what transform, onProgress and onComplete observe in the very first run of a
\* fresh scheduler with the same configuration, left to run undisturbed
firstRunLog == runAllTimers(start(Fresh)).log

IsPrefix(a, b) == Len(a) <= Len(b) /\ \A k \in 1..Len(a) : a[k] = b[k]

\* C9: a run started after a completed run or after stop() produces the same
\* transform invocations, progress callbacks and completion result as the first
\* start() of a fresh scheduler: at any moment what it has produced is a prefix
\* of the first run's sequence, and the whole of it when the run has completed.
C9_RestartLikeFirstStart ==
    runKind \in {"afterComplete", "afterStop"} =>
        /\ IsPrefix(log, firstRunLog)
        /\ Len(log) > 0
        /\ runEnded => log = firstRunLog

C9_Witness ==
    /\ runKind = "afterComplete" /\ runEnded
    /\ Len(data) = 4 /\ count = 3
    /\ log = firstRunLog
    /\ Len(log) = 7

C9_WitnessAfterStop ==
    /\ runKind = "afterStop" /\ runEnded
    /\ Len(data) = 4 /\ count = 3
    /\ log = firstRunLog

\* ----------------------------------------------------------------- C10
activeFlagMatchesPhase == isRunning <=> phase \in {"Running", "Paused"}

\* C10 as stated: isRunning is true exactly in Running and Paused, and pause()
\* and resume() never change it.
C10_Original ==
    /\ []activeFlagMatchesPhase
    /\ [][lastOp' \in {"pause", "resume"} => isRunning' = isRunning]_vars

\* C10 amended: isRunning is true exactly in Running and Paused; pause() never
\* changes it; resume() keeps it true unless the chunk it processes is the last
\* one, in which case the run completes inside resume() and the flag is false.
C10_ActivityFlag ==
    /\ []activeFlagMatchesPhase
    /\ [][lastOp' = "pause" => isRunning' = isRunning]_vars
    /\ [][lastOp' = "resume" =>
            IF phase = "Paused" /\ currentIndex + count >= Len(data)
            THEN ~isRunning' /\ phase' = "Completed"
            ELSE isRunning' = isRunning]_vars

C10_Witness ==
    /\ lastOp = "resume" /\ acted
    /\ ~isRunning /\ phase = "Completed"
    /\ wasPaused /\ Len(data) = 4

C10_WitnessPaused ==
    /\ lastOp = "pause" /\ acted
    /\ isRunning /\ isPaused /\ phase = "Paused"
\* ----------------------------------------------------------------- C11
\* a start() that passes the documented guard (the scheduler is not active)
startsRun == lastOp' = "start" /\ phase \notin {"Running", "Paused"}

\* C11: for empty items start() completes inside the call: onComplete fires
\* exactly once with an empty sequence, transform is not invoked, no continuation
\* is scheduled and the activity flag is false afterwards.
C11_EmptyCompletesInStart ==
    [][(startsRun /\ Len(data) = 0) =>
         /\ Cardinality(completions(log')) = 1
         /\ log'[Len(log')] = <<"complete", <<>>>>
         /\ handlerCalls(log') = <<>>
         /\ timers' = {}
         /\ ~isRunning']_vars

C11_Witness ==
    /\ lastOp = "start" /\ acted
    /\ Len(data) = 0
    /\ log = << <<"progress", 0, 0>>, <<"complete", <<>>>> >>
    /\ ~isRunning /\ timers = {}

\* ----------------------------------------------------------------- C12
\* C12: when chunkSize >= len(items), start() processes every element in one
\* synchronous step and completes inside the call, and no continuation is
\* scheduled at any point.
C12_SingleChunkRun ==
    /\ [](count >= Len(data) => (timers = {} /\ timeoutId = NoTimer))
    /\ [][(startsRun /\ count >= Len(data)) =>
            /\ Len(handlerCalls(log')) = Len(data)
            /\ Cardinality(progresses(log')) = 1
            /\ log'[Len(log')] = <<"complete", expectedResult>>
            /\ ~isRunning' /\ phase' = "Completed"]_vars

C12_Witness ==
    /\ lastOp = "start" /\ acted
    /\ Len(data) = 3 /\ count = 3
    /\ phase = "Completed" /\ timers = {}
    /\ Len(handlerCalls(log)) = 3

\* ----------------------------------------------------------------- C13
progressSeq == SelectSeq(log, LAMBDA e : e[1] = "progress")

\* ceil(len / chunkSize)
chunksNeeded == (Len(data) + count - 1) \div count

\* the number of handler entries of the log before position p
handledBefore(p) == Cardinality({k \in 1..(p - 1) : log[k][1] = "handler"})

\* C13: for non-empty items the progress callback is invoked once per chunk step
\* with (cursor, len): the k-th report of a run is (min(k * chunkSize, len), len),
\* it follows the chunk's transform calls, and a completed run has
\* ceil(len / chunkSize) reports, the last one (len, len).
C13_ProgressPerChunk ==
    Len(data) > 0 =>
        /\ Len(progressSeq) <= chunksNeeded
        /\ \A k \in 1..Len(progressSeq) :
              progressSeq[k] = <<"progress", Min(k * count, Len(data)), Len(data)>>
        /\ \A p \in progresses(log) : handledBefore(p) = log[p][2]
        /\ Len(handlerCalls(log)) > 0 => log[Len(log)][1] # "handler"
        /\ runEnded => Len(progressSeq) = chunksNeeded

C13_Witness ==
    /\ runEnded /\ Len(data) = 4 /\ count = 3
    /\ progressSeq = << <<"progress", 3, 4>>, <<"progress", 4, 4>> >>

\* ----------------------------------------------------------------- C14
\* C14: 0 <= cursor <= len(items) in every state; cursor decreases only by being
\* reset to 0, and only in a start() that begins a new run (which then processes
\* the first chunk from 0) or in a stop() of an active scheduler.
C14_CursorRangeMonotone ==
    /\ [](currentIndex >= 0 /\ currentIndex <= Len(data))
    /\ [][currentIndex' < currentIndex =>
            \/ (startsRun /\ currentIndex' = Min(count, Len(data)))
            \/ (lastOp' = "stop" /\ phase \in {"Running", "Paused"}
                /\ currentIndex' = 0)]_vars

C14_Witness ==
    /\ lastOp = "start" /\ acted /\ runKind = "afterComplete"
    /\ Len(data) = 4 /\ count = 2 /\ currentIndex = 2

\* ----------------------------------------------------------------- C15
\* C15: between operations results[i] = transform(items[i], i) for every
\* i in [0, cursor), and results holds nothing beyond the processed indices.
C15_ResultsPrefix ==
    /\ Len(result) = currentIndex
    /\ \A i \in 0..(currentIndex - 1) :
          i < Len(result) /\ result[i + 1] = handler(data[i + 1], i)

C15_Witness ==
    /\ isRunning /\ runKind = "afterComplete"
    /\ Len(data) = 4 /\ currentIndex = 2 /\ handlerKind = "indexed"
    /\ result = <<data[1], 10 + data[2]>>

\* ----------------------------------------------------------------- C16
\* C16: the stored timer handle is non-null only while the scheduler is Running
\* and the continuation it names is still pending; it is null in Idle, Paused and
\* Completed.
C16_HandleOnlyWhilePending ==
    timeoutId # NoTimer =>
        /\ phase = "Running"
        /\ \E t \in timers : t.id = timeoutId

\* ----------------------------------------------------------------- C17
\* C17: a chunk step runs only inside start(), inside resume() or in a timer
\* callback, and a timer callback runs its step no earlier than intervalMs after
\* the end of the previous chunk step.
C17_IntervalBetweenSteps ==
    /\ [][(log' # log /\ ~startsRun) => lastOp' \in {"resume", "timer"}]_vars
    /\ [][(lastOp' = "timer" /\ log' # log) => elapsed >= interval]_vars

C17_Witness ==
    /\ lastOp = "timer" /\ acted
    /\ interval = 2 /\ count = 1
    /\ currentIndex = 3 /\ ~wasPaused
\* ----------------------------------------------------------------- C18
\* C18: fn is never executed less than delay ms after the most recent call of
\* the debounced function, and never inside a call.
C18_NotBeforeDelay ==
    /\ [](\A k \in 1..Len(execs) :
            /\ execs[k].ncalls >= 1
            /\ execs[k].time - called[execs[k].ncalls].time >= delay)
    /\ [][lastOp' = "call" => execs' = execs]_vars

C18_Witness ==
    /\ delay = 2 /\ Len(called) = 1 /\ Len(execs) = 1
    /\ execs[1].time = called[1].time + 2
    /\ lastOp = "poll" /\ acted

\* ----------------------------------------------------------------- C19
\* the executions of fn that happened while call j was the most recent call
execsOf(j) == {k \in 1..Len(execs) : execs[k].ncalls = j}

\* call j was followed by the next call less than delay later
superseded(j) == j < Len(called) /\ called[j + 1].time - called[j].time < delay

C20_ThrottleSpacing ==
    /\ [](\A k \in 1..(Len(execs) - 1) : execs[k + 1].time - execs[k].time >= delay)
    /\ [](\A k \in 1..Len(execs) :
            /\ execs[k].ncalls >= 1
            /\ called[execs[k].ncalls] = [args |-> execs[k].args, time |-> execs[k].time])
    /\ [](\A j \in 1..Len(called) : Cardinality(execsOf(j)) <= 1)
    /\ [][execs' # execs =>
            /\ lastOp' = "throttled"
            /\ Len(execs') = Len(execs) + 1
            /\ execs'[Len(execs')].ncalls = Len(called')
            /\ Len(called') = Len(called) + 1]_vars

C20_Witness ==
    /\ delay = 2 /\ Len(called) = 3 /\ Len(execs) = 2
    /\ execs[1].ncalls = 1 /\ execs[2].ncalls = 3
    /\ called[2].time = called[1].time + 1
    /\ execs[2].time = execs[1].time + 2

\* ----------------------------------------------------------------- C21
\* C21: whatever mutations of state.value (top-level fields, the nested array)
\* and reset() calls came before, a reset() of a useResettableRef container
\* leaves state.value deep-equal to the value the factory produced when the
\* container was created.
C21_ResetRestoresRef ==
    \A c \in Containers :
        (lastOp = "reset" /\ who = c /\ kinds[c] = "ref") =>
            deepValue(Rs, state[c]) = produced[c]

C21_Witness ==
    /\ lastOp = "reset" /\ acted /\ kinds[who] = "ref"
    /\ factoryKind = "shared" /\ factoryValue = [count |-> 1, extra |-> 1, a |-> <<1, 2>>]
    /\ produced[who] = InitialValue
    /\ deepValue(Rs, state[who]) = InitialValue

\* ----------------------------------------------------------------- C22
\* C22: for a factory whose value is still the one it returned at creation, a
\* reset() of a useResettableReactive container leaves the same state object,
\* with exactly the initial keys and deep-equal initial values (an added key is
\* gone), and a write to the object after the reset takes effect on that object.
C22_ResetRestoresReactive ==
    /\ [](\A c \in Containers :
            (lastOp = "reset" /\ who = c /\ kinds[c] = "reactive"
             /\ factoryValue = produced[c]) =>
                /\ kept
                /\ deepValue(Rs, state[c]) = produced[c])
    /\ [][(lastOp = "reset" /\ kinds[who] = "reactive" /\ who' = who
           /\ factoryValue = produced[who]
           /\ lastOp' \in {"setCount", "addKey"}) =>
            /\ kept'
            /\ lastOp' = "setCount" => objs'[state'[who]].count = 1
            /\ lastOp' = "addKey" => objs'[state'[who]].extra = 1]_vars

C22_Witness ==
    /\ lastOp = "reset" /\ acted /\ kept /\ kinds[who] = "reactive"
    /\ factoryKind = "fresh"
    /\ deepValue(Rs, state[who]) = InitialValue
    /\ \E d \in Containers \ {who} :
          kinds[d] = "reactive" /\ objs[state[d]].extra = 1

\* ----------------------------------------------------------------- C23
\* C23: a mutation of the state of one container changes neither the object the
\* factory returns nor the state of another container, also for a factory that
\* returns the same object on every call.
C23_MutationsStayLocal ==
    [][lastOp' \in {"setCount", "addKey", "push"} =>
         /\ factoryKind = "shared" =>
               deepOf(objs', arrs', SharedAddr) = deepValue(Rs, SharedAddr)
         /\ \A d \in Containers \ {who'} :
               kinds[d] # "none" =>
                   deepOf(objs', arrs', state'[d]) = deepValue(Rs, state[d])]_vars

\* ----------------------------------------------------------------- C24
\* C24: before any handled scroll event scrollTop is 0 and the direction "none";
\* after every handled scroll event scrollDirection is "down" if the new
\* scrollTop is greater than the scrollTop recorded at the previous handled
\* event, "up" if it is smaller and "none" if it is equal, and the recorded
\* previous position equals the new scrollTop.
C24_ScrollDirection ==
    /\ [](mounted = "setup" => scrollTop = 0 /\ scrollDirection = "none")
    /\ [][lastOp' = "scroll" =>
            /\ scrollDirection' = IF scrollTop' > scrollTop THEN "down"
                                  ELSE IF scrollTop' < scrollTop THEN "up"
                                  ELSE "none"
            /\ prevScrollTop' = scrollTop']_vars

C24_Witness ==
    /\ lastOp = "scroll" /\ acted
    /\ scrollDirection = "up"
    /\ scrollTop = 1 /\ prevScrollTop = 1
    /\ pageYOffset = 0 /\ docScrollTop = 1

\* ----------------------------------------------------------------- C25
\* C25: after an input event handled outside a composition the value of an
\* integerOnly input is the digits of the entered text, in their order, cut to
\* the first limit of them (the empty text when it has no digit).
C25_IntegerDigitsOnly ==
    (directive = "integer" /\ lastOp = "input" /\ acted) =>
        LET digits == SelectSeq(entered, LAMBDA ch : ch \in {"1", "2"})
        IN  /\ Len(value) = Min(limit, Len(digits))
            /\ \A k \in 1..Len(value) : value[k] = digits[k]

C25_Witness ==
    /\ directive = "integer" /\ lastOp = "input" /\ acted
    /\ limit = 2
    /\ entered = <<"2", "1", "2">>
    /\ value = <<"2", "1">>
    /\ dispatched = 1

\* ----------------------------------------------------------------- C26
\* the number of points in a text
dots(t) == Cardinality({k \in 1..Len(t) : t[k] = "."})

\* C26: after an input event handled outside a composition the value of a
\* decimalOnly input holds only digits and at most one point, and at most limit
\* digits after the point.
C26_DecimalShape ==
    (directive = "decimal" /\ lastOp = "input" /\ acted) =>
        /\ \A k \in 1..Len(value) : value[k] \in Digits \cup {"."}
        /\ dots(value) <= 1
        /\ \A k \in 1..Len(value) : value[k] = "." => Len(value) - k <= limit

C26_Witness ==
    /\ directive = "decimal" /\ lastOp = "input" /\ acted
    /\ limit = 0
    /\ entered = <<"1", ".", "2">>
    /\ value = <<"1", ".">>

\* ----------------------------------------------------------------- C27
\* the operation just made ran a chunk step and the transform threw in it
threw ==
    /\ lastOp' \in {"start", "resume", "timer"} /\ acted'
    /\ Len(log') > 0 /\ log'[Len(log')][1] = "throw"

\* the cursor the step found: 0 in a start(), the current one otherwise
cursorBefore == IF lastOp' = "start" THEN 0 ELSE currentIndex

\* C27: a chunk step in which transform throws leaves cursor at its value from
\* before the step, with results written for the indices of the chunk before
\* the throwing one, and brings no progress callback, no completion callback
\* and no new pending continuation.
C27_ThrowAbortsStep ==
    [][threw =>
         /\ currentIndex' = cursorBefore
         /\ \A i \in cursorBefore..(throwAt - 1) :
               i < Len(result') /\ result'[i + 1] = handler(data[i + 1], i)
         /\ log'[Len(log')] = <<"throw", data[throwAt + 1], throwAt>>
         /\ Cardinality(progresses(log')) =
               IF lastOp' = "start" THEN 0 ELSE Cardinality(progresses(log))
         /\ completions(log') = {}
         /\ timers' \subseteq timers]_vars

C27_Witness ==
    /\ lastOp = "timer" /\ acted
    /\ Len(log) > 0 /\ log[Len(log)][1] = "throw"
    /\ throwAt = 3 /\ count = 2 /\ Len(data) = 4
    /\ currentIndex = 2 /\ Len(result) = 3
    /\ timers = {} /\ isRunning

\* ----------------------------------------------------------------- C28
\* C28: with a chunk size that is not positive and non-empty items, a start()
\* that passes its guard leaves the scheduler inactive and schedules no
\* continuation, and cursor stays within [0, len(items)].
C28_BadCountFailsFast ==
    /\ [][(lastOp' = "start" /\ acted') => (~isRunning' /\ timers' = {})]_vars
    /\ [](currentIndex >= 0 /\ currentIndex <= Len(data))

\* ----------------------------------------------------------------- C29
\* the operation just made ran a chunk step whose progress callback called
\* pause() or stop()
calledBack ==
    /\ lastOp' \in {"start", "resume", "timer"} /\ acted'
    /\ onProgressOp \in {"pause", "stop"}
    /\ \E p \in progresses(log') :
          /\ \A r \in progresses(log') : r <= p
          /\ log'[p][2] = onProgressAt

\* C29: when a chunk step whose progress callback called pause() or stop()
\* returns, no continuation is pending, and at no time are two continuations of
\* one scheduler pending.
C29_CallbackCancels ==
    /\ [][calledBack => timers' = {}]_vars
    /\ [](Cardinality(timers) <= 1)

\* ----------------------------------------------------------------- C30
\* the time of the last execution of fn the observer saw, 0 when there was none
lastExecution == IF execs = <<>> THEN 0 ELSE execs[Len(execs)].time

\* C30: a call of the throttled function at time now executes fn inside the
\* call, with the call's arguments, if and only if now minus the time of the
\* last execution (0 when there was none) is at least delay; a dropped call
\* leaves the recorded last-execution time as it was; with delay 0 every call
\* executes.
C30_ThrottleDecision ==
    /\ [][lastOp' = "throttled" =>
            IF now - lastExecution >= delay
            THEN /\ execs' = Append(execs, [args |-> called'[Len(called')].args,
                                            time |-> now, ncalls |-> Len(called')])
                 /\ lastExecuteTime' = now
            ELSE /\ execs' = execs
                 /\ lastExecuteTime' = lastExecuteTime]_vars
    /\ [](lastExecuteTime = lastExecution)
    /\ [](delay = 0 => Len(execs) = Len(called))

C30_Witness ==
    /\ delay = 2 /\ lastOp = "throttled" /\ acted
    /\ Len(called) = 2
    /\ called[1].time = 1 /\ called[2].time = 2 /\ called[2].args = 2
    /\ execs = <<[args |-> 2, time |-> 2, ncalls |-> 2]>>
    /\ lastExecuteTime = 2

\* ----------------------------------------------------------------- C31
\* C31: the decimal filter applied to the text of an input event never yields
\* a text that begins with a point, and applied to its own output it returns
\* that output.
C31_FilterIdempotent ==
    (directive = "decimal" /\ lastOp = "input" /\ acted) =>
        LET filtered == filterDecimal(entered, limit)
        IN  /\ (filtered = <<>> \/ filtered[1] # ".")
            /\ filterDecimal(filtered, limit) = filtered

\* ----------------------------------------------------------------- C32
\* the filter of the bound directive with the limit mounted() took
filterOf(t) ==
    IF directive = "integer" THEN filterInteger(t, limit) ELSE filterDecimal(t, limit)

\* the filter applied n times
RECURSIVE times(_, _)
times(t, n) == IF n = 0 THEN t ELSE times(filterOf(t), n - 1)

\* C32: an input event during a composition leaves the entered text in the
\* input as it is, with nothing written or dispatched by the directive; the
\* compositionend event filters the value then present (one run of the handler,
\* every event it dispatches included), and an input event after it is
\* filtered in the same way.
C32_CompositionDefersFilter ==
    [][/\ (lastOp' = "input" /\ isComposing) =>
            (value' = entered /\ dispatched' = 0 /\ ~acted')
       /\ lastOp' = "compositionend" =>
            /\ ~isComposing'
            /\ value' = times(value, dispatched')
            /\ filterOf(value') = value'
       /\ (lastOp' = "input" /\ ~isComposing) =>
            /\ acted'
            /\ value' = times(entered, dispatched')
            /\ filterOf(value') = value']_vars

C32_Witness ==
    /\ directive = "integer" /\ limit = 2
    /\ lastOp = "compositionend" /\ ~isComposing
    /\ entered = <<"1", "a", "2">>
    /\ value = <<"1", "2">>
    /\ dispatched = 1

\* ----------------------------------------------------------------- C33
\* C33: updated() leaves a text the user entered that passes the filter
\* unchanged in the input as it is, whatever the binding value.
C33_BindingOnlyLimit ==
    [][(lastOp' = "updated" /\ lastOp = "input" /\ value = entered
            /\ filterOf(value) = value)
         => value' = value]_vars

\* ----------------------------------------------------------------- C39
\* C39: a run of handleInput, with every input event it dispatches handled in
\* turn, ends: it dispatches at most two events, and the value it leaves in the
\* input is a text the filter returns unchanged.
C39_RedispatchTerminates ==
    (lastOp \in {"input", "compositionend"} /\ acted) =>
        /\ filterOf(value) = value
        /\ dispatched <= 2

C39_Witness ==
    /\ directive = "decimal" /\ limit = 2
    /\ lastOp = "input" /\ acted
    /\ entered = <<".", ".", "1">>
    /\ value = <<"1">>
    /\ dispatched = 2

\* ----------------------------------------------------------------- C35
\* C35: with the operations invoked between chunk steps, at most one
\* continuation of the scheduler is pending at any time, and none is pending
\* while the scheduler is Idle, Paused or Completed.
C35_SingleContinuation ==
    /\ Cardinality(timers) <= 1
    /\ phase \in {"Idle", "Paused", "Completed"} => timers = {}

C35_Witness ==
    /\ lastOp = "resume" /\ acted /\ wasPaused
    /\ phase = "Running"
    /\ Cardinality(timers) = 1
    /\ currentIndex = 2 /\ Len(data) = 3

\* ----------------------------------------------------------------- C37
\* the content of the array when the completion callback of the run received it
handedOver == log[CHOOSE k \in completions(log) : TRUE][2]

\* C37: no operation made after a run has completed changes the sequence its
\* completion callback received: after the operation the sequence holds what
\* it held when it was handed over.
C37_DeliveredResultsStable ==
    [][phase = "Completed" => onCompleteArg' = handedOver]_vars

\* ----------------------------------------------------------------- C36
\* the last chunk step of the run was aborted by a throw and the run was not
\* stopped since
aborted == isRunning /\ Len(log) > 0 /\ log[Len(log)][1] = "throw"

\* what the observers see of a step that starts at the cursor and throws
rerun ==
    [k \in 1..(throwAt - currentIndex) |->
        <<"handler", data[currentIndex + k], currentIndex + k - 1>>]
    \o << <<"throw", data[throwAt + 1], throwAt>> >>

\* C36: a chunk step in which transform throws leaves the scheduler active, not
\* paused, with no continuation pending. From then on no timer fires, start()
\* changes nothing, a resume() that follows a pause() runs the aborted chunk
\* again from the same cursor, and stop() is the only operation that makes the
\* scheduler inactive (Idle, cursor 0, no results).
C36_StuckAfterThrow ==
    /\ [][threw => (isRunning' /\ ~isPaused' /\ timers' = {})]_vars
    /\ [](aborted => timers = {})
    /\ [][aborted =>
            /\ lastOp' # "timer"
            /\ lastOp' = "start" => (~acted' /\ UNCHANGED progVars)
            /\ lastOp' = "tick" => UNCHANGED progVars
            /\ lastOp' = "pause" => (isPaused' /\ currentIndex' = currentIndex /\ log' = log)
            /\ (lastOp' = "resume" /\ acted') =>
                  (currentIndex' = currentIndex /\ log' = log \o rerun /\ ~isPaused')
            /\ isRunning' <=> lastOp' # "stop"
            /\ lastOp' = "stop" =>
                  /\ phase' = "Idle" /\ ~isPaused'
                  /\ currentIndex' = 0 /\ result' = <<>> /\ timers' = {}]_vars

C36_Witness ==
    /\ lastOp = "resume" /\ acted /\ aborted /\ ~isPaused
    /\ throwAt = 3 /\ count = 2 /\ currentIndex = 2
    /\ Cardinality({k \in 1..Len(log) : log[k][1] = "throw"}) = 2
    /\ timers = {}

\* ----------------------------------------------------------------- C34
\* C34: with a positive chunk size, a transform that returns, every pause()
\* followed by a resume(), no stop() and every scheduled continuation fired in
\* the end, a run that was started completes: the activity flag becomes false
\* and the completion callback has fired.
C34_RunCompletes ==
    isRunning ~> (~isRunning /\ phase = "Completed" /\ completions(log) # {})

C34_Witness ==
    /\ ~isRunning /\ phase = "Completed" /\ completions(log) # {}
    /\ wasPaused /\ lastOp = "timer" /\ acted
    /\ Len(data) = 3 /\ count = 1 /\ interval = 1

\* ----------------------------------------------------------------- C38
\* call j was executed: once, with its arguments, no earlier than delay after it
executedOnce(j) ==
    /\ Cardinality(execsOf(j)) = 1
    /\ \A k \in execsOf(j) :
          /\ execs[k].args = called[j].args
          /\ execs[k].time >= called[j].time + delay

\* the most recent call is due: the clock has reached its time plus delay, and
\* fn has not been executed for it
due ==
    /\ Len(called) > 0
    /\ now >= lastCallTime + delay
    /\ ~executedOnce(Len(called))

\* the queued pollers of superseded calls
stale == pollers \ {executeId}

\* C38: once the clock has reached the time of the most recent call plus delay,
\* in the end fn has been executed exactly once for that call, with its
\* arguments, unless another call was made; the pollers of superseded calls
\* leave the queue in the end, and no check of such a poller puts it back or
\* executes fn.
C38_LastCallExecutes ==
    /\ due ~> ~due
    /\ (stale # {}) ~> (stale = {})
    /\ [][lastOp' = "poll" =>
            IF pollers' = pollers
            THEN executeId \in pollers /\ now - lastCallTime < delay /\ execs' = execs
            ELSE \E id \in pollers :
                    /\ pollers' = pollers \ {id}
                    /\ execs' # execs => id = executeId]_vars

C38_Witness ==
    /\ delay = 2 /\ Len(called) = 3 /\ now = 3
    /\ called[3].time - called[2].time < delay
    /\ called[2].time - called[1].time < delay
    /\ executedOnce(3) /\ Len(execs) = 1
    /\ pollers = {}
    /\ lastOp = "poll" /\ ~acted
====
